---- MODULE Spec2Model ----
(***************************************************************************)
(* A model of src/services/storageService.ts: the StorageService data      *)
(* access layer (products, orders, tables) over the safeStorage fallback   *)
(* key-value store, and over Firestore when a backend handle exists.       *)
(*                                                                         *)
(* Values stored under a key are kept in parsed form: every value the      *)
(* service stores is JSON.stringify of arrays and objects of strings and   *)
(* integers, which JSON.parse reads back unchanged.  A key that was never  *)
(* written holds NULL (getItem returns null); a written key holds          *)
(* Item(v), the one-element tuple of its parsed value v.                   *)
(***************************************************************************)
EXTENDS Integers, Sequences, FiniteSets, TLC

VARIABLES
    products,   \* safeStorage value of STORAGE_KEYS.PRODUCTS: NULL or a sequence of Product
    orders,     \* safeStorage value of STORAGE_KEYS.ORDERS: NULL or a sequence of Order
    tables,     \* safeStorage value of STORAGE_KEYS.TABLES: NULL or a map key -> TableState
    now,        \* the latest reading of Date.now()
    calls,      \* the number of service calls made so far
    last,       \* the latest service call: its arguments, and the store it found
    cloudProducts,  \* Firestore collection 'products': document id -> data
    cloudOrders,    \* Firestore collection 'orders': the documents, in order of creation
    inflight,       \* the cloud-mode calls: what each was asked, and how far it has got
    localStorage,   \* the persistent medium: key -> NULL or Item(string)
    memoryStore,    \* the Map memoryStore: a function from the keys it has
    written,        \* per key, the latest setItem not followed by removeItem
    kvLast,         \* the latest safeStorage call and what it returned
    subs,           \* the fallback-mode subscriptions made
    timers,         \* the intervals the runtime holds: those set and not cleared
    subLast,        \* the latest step of a subscription
    cloudTables,    \* Firestore collection 'tables': document id -> data
    db,             \* the Firestore instance the service holds, or NULL
    apps,           \* the Firebase app registered in this page, or NULL
    firebaseConfig, \* the compiled-in configuration of ./firebaseConfig
    firestoreAvailable, \* whether getFirestore succeeds in this environment
    savedConfig,    \* safeStorage value of STORAGE_KEYS.DB_CONFIG: NULL or Item(config)
    initLast        \* the latest run of init: its argument and what it did

fallbackVars == <<products, orders, tables, now, calls, last>>

cloudVars == <<cloudProducts, cloudOrders, cloudTables, inflight>>

kvVars == <<localStorage, memoryStore, written, kvLast>>

subVars == <<subs, timers, subLast>>

connVars == <<db, apps, firebaseConfig, firestoreAvailable, savedConfig, initLast>>

vars == <<products, orders, tables, now, calls, last, cloudProducts, cloudOrders, inflight,
          localStorage, memoryStore, written, kvLast, subs, timers, subLast,
          cloudTables, db, apps, firebaseConfig, firestoreAvailable, savedConfig, initLast>>

NULL == <<>>

Item(v) == <<v>>

(***************************************************************************)
(* Bounds of the model.                                                    *)
(***************************************************************************)
MaxClock == 1       \* Date.now() ranges over 0..MaxClock
MaxCalls == 3       \* a behaviour makes at most this many service calls
MaxInflight == 2    \* at most this many cloud-mode calls run concurrently
MaxStoreCalls == 4  \* a behaviour makes at most this many safeStorage calls
MaxDeliveries == 3  \* a subscription's callback is invoked at most this many times

(***************************************************************************)
(* Types and inputs.                                                       *)
(***************************************************************************)
OrderStatus == {"PENDING", "PAID", "CANCELED"}

CLOSING_REQUESTED == "CLOSING_REQUESTED"

\* A Product is kept with the fields the operations compute with: id, name,
\* price and stock.  Its description, category and imageUrl are copied along
\* and decide nothing.  These are the first two records of INITIAL_PRODUCTS.
INITIAL_PRODUCTS ==
    << [id |-> "1", name |-> "Cerveja", price |-> 15, stock |-> 48],
       [id |-> "2", name |-> "Agua", price |-> 8, stock |-> 20] >>

ProductNames == {"Cerveja", "Agua"}
Prices == {8, 15}
StockInputs == {0, 10}
Quantities == {1, 50}
TableIds == {1, 2}
PaymentMethods == {"card"}
Clock == 0..MaxClock

(***************************************************************************)
(* Helpers of the language: Array.prototype.findIndex / find, || on a      *)
(* string, Math.max.                                                       *)
(***************************************************************************)
\* findIndex over the results of the test on each element of the array, in
\* order; 1-based, and 0 stands for the -1 of "not found".
FindIndex(tests) ==
    IF \E i \in 1..Len(tests) : tests[i]
    THEN CHOOSE i \in 1..Len(tests) : tests[i] /\ \A j \in 1..(i - 1) : ~tests[j]
    ELSE 0

Max(a, b) == IF a >= b THEN a ELSE b

\* JSON.parse(safeStorage.getItem(key) || '[]')
ParseList(stored) == IF stored = NULL THEN <<>> ELSE stored[1]

\* JSON.parse(safeStorage.getItem(key) || '{}'): the map with no key.
EmptyMap == [k \in {} |-> ""]

ParseMap(stored) == IF stored = NULL THEN EmptyMap ELSE stored[1]

(***************************************************************************)
(* saveProduct, fallback branch.                                           *)
(***************************************************************************)
\* !product.id || product.id.length < 5
NeedsId(id) == id = "" \/ Len(id) < 5

\* 'local_' + Date.now()
GenerateId(t) == "local_" \o ToString(t)

\* Restock with the stock overwritten instead of summed.
RestockOverwrite(existing, product) ==
    [existing EXCEPT !.stock = product.stock,
                     !.price = product.price]

\* The restock of the record found by name: stock summed, price overwritten.
Restock(existing, product) ==
    [existing EXCEPT !.stock = @ + product.stock,
                     !.price = product.price]

\* The catalog saveProduct writes back, from the catalog it read, the product
\* passed in and the clock reading t used when an identifier is generated.
SaveProductLocal(list, product, t) ==
    LET existingIndex == FindIndex([i \in 1..Len(list) |-> list[i].id = product.id])
        nameIndex == FindIndex([i \in 1..Len(list) |-> list[i].name = product.name /\ list[i].id # product.id])
        stored == IF NeedsId(product.id)
                  THEN [product EXCEPT !.id = GenerateId(t)]
                  ELSE product
    IN  IF existingIndex > 0
        THEN [list EXCEPT ![existingIndex] = stored]
        ELSE IF nameIndex > 0
             THEN [list EXCEPT ![nameIndex] = Restock(list[nameIndex], product)]
             ELSE Append(list, stored)

\* A service call is counted, and recorded with its arguments and with the
\* values the store held when it was made.
Call(record) ==
    /\ calls < MaxCalls
    /\ calls' = calls + 1
    /\ last' = [call |-> record, products |-> products, orders |-> orders, tables |-> tables]
    /\ UNCHANGED <<cloudVars, kvVars, subVars, connVars>>

\* The readings Date.now() can give next, when it is read at all: the value
\* of the latest reading again, or a later one.
Readings(needed) == IF needed THEN {t \in Clock : now <= t /\ t <= now + 1} ELSE {now}

SaveProduct(product) ==
    \E t \in Readings(NeedsId(product.id)) :
        /\ Call([op |-> "saveProduct", product |-> product])
        /\ products' = Item(SaveProductLocal(ParseList(products), product, t))
        /\ now' = t
        /\ UNCHANGED <<orders, tables>>

(***************************************************************************)
(* deleteProduct, fallback branch.                                         *)
(***************************************************************************)
DeleteProductLocal(list, id) == SelectSeq(list, LAMBDA p : p.id # id)

DeleteProduct(id) ==
    /\ products' = Item(DeleteProductLocal(ParseList(products), id))
    /\ Call([op |-> "deleteProduct", id |-> id])
    /\ UNCHANGED <<orders, tables, now>>

(***************************************************************************)
(* createOrder, fallback branch.                                           *)
(***************************************************************************)
\* items.map(i => ({productId, name, price, quantity}))
LineItems(items) ==
    [i \in 1..Len(items) |->
        [productId |-> items[i].product.id,
         name |-> items[i].product.name,
         price |-> items[i].product.price,
         quantity |-> items[i].quantity]]

\* Total with the quantity left out of the product.
RECURSIVE TotalOfPrices(_)
TotalOfPrices(items) ==
    IF items = <<>> THEN 0
    ELSE TotalOfPrices(SubSeq(items, 1, Len(items) - 1)) + items[Len(items)].product.price

\* items.reduce((acc, curr) => acc + curr.product.price * curr.quantity, 0)
RECURSIVE Total(_)
Total(items) ==
    IF items = <<>> THEN 0
    ELSE Total(SubSeq(items, 1, Len(items) - 1))
         + items[Len(items)].product.price * items[Len(items)].quantity

\* Decrement without the floor at zero.
DecrementUnfloored(stock, quantity) == stock - quantity

\* Math.max(0, stock - quantity)
Decrement(stock, quantity) == Max(0, stock - quantity)

\* One pass of items.forEach over the catalog: the first record with the
\* item's product identifier is decremented, an unknown identifier is skipped.
DecrementItem(list, item) ==
    LET pIndex == FindIndex([i \in 1..Len(list) |-> list[i].id = item.product.id])
    IN  IF pIndex > 0
        THEN [list EXCEPT ![pIndex].stock = Decrement(@, item.quantity)]
        ELSE list

RECURSIVE DecrementAll(_, _)
DecrementAll(list, items) ==
    IF items = <<>> THEN list
    ELSE DecrementAll(DecrementItem(list, Head(items)), Tail(items))

\* orderData with its identifier Date.now().toString(); observation, a text
\* that is only copied, is left out.  The call reads the clock twice, for the
\* timestamp and for the identifier: both readings give the same value t.
NewOrder(tableId, items, t) ==
    [id |-> ToString(t),
     tableId |-> tableId,
     status |-> "PENDING",
     timestamp |-> t,
     items |-> LineItems(items),
     total |-> Total(items)]

CreateOrder(tableId, items) ==
    \E t \in Readings(TRUE) :
        /\ Call([op |-> "createOrder", tableId |-> tableId, items |-> items])
        /\ products' = Item(DecrementAll(ParseList(products), items))
        /\ orders' = Item(Append(ParseList(orders), NewOrder(tableId, items, t)))
        /\ now' = t
        /\ UNCHANGED tables

(***************************************************************************)
(* updateOrderStatus, fallback branch.                                     *)
(***************************************************************************)
\* One pass of order.items.forEach: the first record with the line item's
\* product identifier gets the quantity back, an unknown identifier is skipped.
RestoreItem(list, item) ==
    LET pIndex == FindIndex([i \in 1..Len(list) |-> list[i].id = item.productId])
    IN  IF pIndex > 0
        THEN [list EXCEPT ![pIndex].stock = @ + item.quantity]
        ELSE list

RECURSIVE RestoreAll(_, _)
RestoreAll(list, items) ==
    IF items = <<>> THEN list
    ELSE RestoreAll(RestoreItem(list, Head(items)), Tail(items))

\* MustRestore without the test of the order's present status.
MustRestoreAlways(order, status) == status = "CANCELED"

\* status === CANCELED && order.status !== CANCELED
MustRestore(order, status) == status = "CANCELED" /\ order.status # "CANCELED"

\* The record of the call notes the call made before it, and the catalog
\* that call found.
UpdateOrderStatus(orderId, status) ==
    LET list == ParseList(orders)
        index == FindIndex([i \in 1..Len(list) |-> list[i].id = orderId])
    IN  /\ IF index > 0
           THEN /\ products' = IF MustRestore(list[index], status)
                               THEN Item(RestoreAll(ParseList(products), list[index].items))
                               ELSE products
                /\ orders' = Item([list EXCEPT ![index].status = status])
           ELSE UNCHANGED <<products, orders>>
        /\ Call([op |-> "updateOrderStatus", orderId |-> orderId, status |-> status,
                 previous |-> [call |-> last.call, products |-> last.products]])
        /\ UNCHANGED <<tables, now>>

(***************************************************************************)
(* requestTableClose and finalizeTable, fallback branch.                   *)
(***************************************************************************)
\* The property key of tables[tableId]: the number as a string.
TableKey(tableId) == ToString(tableId)

RequestTableCloseLocal(map, tableId, paymentMethod) ==
    [k \in DOMAIN map \cup {TableKey(tableId)} |->
        IF k = TableKey(tableId)
        THEN [status |-> CLOSING_REQUESTED, paymentMethod |-> paymentMethod]
        ELSE map[k]]

RequestTableClose(tableId, paymentMethod) ==
    /\ tables' = Item(RequestTableCloseLocal(ParseMap(tables), tableId, paymentMethod))
    /\ Call([op |-> "requestTableClose", tableId |-> tableId])
    /\ UNCHANGED <<products, orders, now>>

\* delete tables[tableId]
RemoveTable(map, tableId) == [k \in DOMAIN map \ {TableKey(tableId)} |-> map[k]]

\* Archive without the test of the CANCELED status.
ArchiveCanceledToo(o, tableId) ==
    IF o.tableId = tableId
    THEN [o EXCEPT !.status = "PAID"]
    ELSE o

\* o.tableId == tableId && o.status !== CANCELED ? {...o, status: PAID} : o
Archive(o, tableId) ==
    IF o.tableId = tableId /\ o.status # "CANCELED"
    THEN [o EXCEPT !.status = "PAID"]
    ELSE o

\* FinalizeOrders pushing the archived copies instead of mapping in place.
FinalizeOrdersPush(list, tableId) ==
    list \o SelectSeq([i \in 1..Len(list) |-> [list[i] EXCEPT !.status = "PAID"]],
                      LAMBDA o : o.tableId = tableId)

\* FinalizeOrders dropping the orders of the table instead of re-tagging them.
FinalizeOrdersDrop(list, tableId) == SelectSeq(list, LAMBDA o : o.tableId # tableId)

FinalizeOrders(list, tableId) == [i \in 1..Len(list) |-> Archive(list[i], tableId)]

FinalizeTable(tableId) ==
    /\ tables' = Item(RemoveTable(ParseMap(tables), tableId))
    /\ orders' = Item(FinalizeOrders(ParseList(orders), tableId))
    /\ Call([op |-> "finalizeTable", tableId |-> tableId])
    /\ UNCHANGED <<products, now>>

(***************************************************************************)
(* The fallback-mode service: the store is empty on a first run, or holds  *)
(* the seeded catalog of an earlier session; then any sequence of calls.   *)
(***************************************************************************)
Catalog == ParseList(products)

OrderList == ParseList(orders)

\* A product the caller still holds though the catalog may not.
StaleProduct == [id |-> "local_9", name |-> "Suco", price |-> 8, stock |-> 5]

CatalogIds == {Catalog[i].id : i \in 1..Len(Catalog)}

\* Identifiers a caller passes: none, those of the catalog, one of no record.
CallerIds == {""} \cup CatalogIds \cup {StaleProduct.id}

ProductInputs == [id : CallerIds, name : ProductNames, price : Prices, stock : StockInputs]

\* The Product objects a caller orders: those of the catalog, or a stale one.
Orderable == {Catalog[i] : i \in 1..Len(Catalog)} \cup {StaleProduct}

OrderItems == [product : Orderable, quantity : Quantities]

\* Orders of one line item, and of two: more than the stock of the first
\* record of the catalog, then one of any record.
ItemLists ==
    {<<a>> : a \in OrderItems}
    \cup {<<a, b>> : a \in {x \in OrderItems : x.quantity = 50 /\ Catalog # <<>> /\ x.product = Catalog[1]},
                     b \in {x \in OrderItems : x.quantity = 1 /\ x.product # StaleProduct}}

OrderIds == {OrderList[i].id : i \in 1..Len(OrderList)}

\* The status updates a caller asks for: of a stored order, or of no order.
StatusUpdates == (OrderIds \X OrderStatus) \cup {<<"none", "CANCELED">>}

\* The edits a caller makes while orders are taken: a new price for a record,
\* under its identifier or as a restock under its name.
PriceEdits ==
    UNION {{[id |-> id, name |-> p.name, price |-> price, stock |-> 10] :
               id \in {"", p.id}, price \in Prices \ {p.price}} : p \in Orderable \ {StaleProduct}}

(***************************************************************************)
(* Cloud mode.  The backend holds the collections; every await of a call   *)
(* is a point where the other calls in flight, of this client or another,  *)
(* may take their steps, and the backend applies one write at a time.      *)
(***************************************************************************)
CallIds == 1..MaxInflight

\* The documents of 'products' a deployment starts with.
CloudCatalog == [id \in {"pA", "pB"} |->
                    IF id = "pA" THEN [name |-> "Cerveja", price |-> 15, stock |-> 48]
                                 ELSE [name |-> "Agua", price |-> 8, stock |-> 20]]

Idle == [pc |-> "idle"]

InitCloud ==
    /\ cloudProducts = CloudCatalog
    /\ cloudOrders = <<>>
    /\ cloudTables = EmptyMap
    /\ inflight = [c \in CallIds |-> Idle]

\* { id: d.id, ...d.data() }: the Product of a document, as a snapshot gives it.
CloudProduct(id) ==
    [id |-> id, name |-> cloudProducts[id].name, price |-> cloudProducts[id].price,
     stock |-> cloudProducts[id].stock]

\* The Product objects a caller orders: those of the snapshot, or a stale one.
CloudOrderable == {CloudProduct(id) : id \in DOMAIN cloudProducts} \cup {StaleProduct}

CloudItemLists ==
    {<<a>> : a \in [product : CloudOrderable, quantity : Quantities]}
    \cup {<<a, b>> : a \in [product : {CloudProduct("pA")} \cap CloudOrderable, quantity : {50}],
                     b \in [product : CloudOrderable \ {StaleProduct}, quantity : {1}]}

\* increment(n) floored at zero, as the fallback branch floors its decrement.
IncrementFloored(stock, n) == Max(0, stock + n)

\* increment(n), applied by the backend to the stored value in one step.
Increment(stock, n) == stock + n

\* createOrder builds orderData and awaits addDoc.
CloudCreateOrderStart(c, tableId, items) ==
    /\ inflight[c].pc = "idle"
    /\ inflight' = [inflight EXCEPT ![c] =
                       [pc |-> "addDoc", op |-> "createOrder", tableId |-> tableId,
                        items |-> items, todo |-> <<>>, overlapped |-> FALSE]]
    /\ UNCHANGED <<cloudProducts, cloudOrders, cloudTables>>
    /\ UNCHANGED <<fallbackVars, kvVars, subVars, connVars>>

\* The backend stores the order under an identifier of its own; the call
\* resumes and issues one updateDoc per item, awaited by nobody.
CloudAddOrder(c) ==
    /\ inflight[c].pc = "addDoc"
    /\ cloudOrders' = Append(cloudOrders,
                             [id |-> "order" \o ToString(Len(cloudOrders) + 1),
                              tableId |-> inflight[c].tableId,
                              status |-> "PENDING",
                              items |-> LineItems(inflight[c].items),
                              total |-> Total(inflight[c].items)])
    /\ inflight' = [inflight EXCEPT ![c].pc = "updating", ![c].todo = inflight[c].items]
    /\ UNCHANGED <<cloudProducts, cloudTables>>
    /\ UNCHANGED <<fallbackVars, kvVars, subVars, connVars>>

\* Another call is between its first await and its last write.
OthersRunning(c) == \E d \in CallIds \ {c} : inflight[d].pc \in {"addDoc", "updating"}

\* The backend applies the next updateDoc of the call: the increment of the
\* stock of the item's product, or nothing when no such document exists
\* (updateDoc rejects, and nothing handles the rejection).
CloudApplyIncrement(c) ==
    /\ inflight[c].pc = "updating"
    /\ inflight[c].todo # <<>>
    /\ LET item == Head(inflight[c].todo)
       IN  cloudProducts' =
               IF item.product.id \in DOMAIN cloudProducts
               THEN [cloudProducts EXCEPT ![item.product.id].stock = Increment(@, -item.quantity)]
               ELSE cloudProducts
    /\ inflight' = [inflight EXCEPT
                       ![c].todo = Tail(@),
                       ![c].pc = IF Len(inflight[c].todo) = 1 THEN "done" ELSE "updating",
                       ![c].overlapped = @ \/ OthersRunning(c)]
    /\ UNCHANGED <<cloudOrders, cloudTables>>
    /\ UNCHANGED <<fallbackVars, kvVars, subVars, connVars>>

\* Concurrent createOrder calls against the backend, all of one table: the
\* table of an order decides nothing about the stock.
NextCloudOrders ==
    \/ \E c \in CallIds : \E tableId \in {1} : \E items \in CloudItemLists :
          CloudCreateOrderStart(c, tableId, items)
    \/ \E c \in CallIds : CloudAddOrder(c)
    \/ \E c \in CallIds : CloudApplyIncrement(c)

(***************************************************************************)
(* finalizeTable, cloud branch, beside the calls of other clients.  The    *)
(* tableId of an order document is a number, or a string where a client    *)
(* stored it so; the backend's == compares type and value.                 *)
(***************************************************************************)
\* where(field, '==', value): equal in type and in value.  ToString writes a
\* number bare and a string in quotes.
StrictEquals(a, b) == ToString(a) = ToString(b)

\* The orders a deployment holds when a table is closed: of table 1 stored
\* as a number and as a string, in every status, and of another table.
StoredOrders ==
    << [id |-> "order1", tableId |-> 1, status |-> "PENDING", items |-> <<>>, total |-> 0],
       [id |-> "order2", tableId |-> "1", status |-> "PENDING", items |-> <<>>, total |-> 0],
       [id |-> "order3", tableId |-> 1, status |-> "CANCELED", items |-> <<>>, total |-> 0],
       [id |-> "order4", tableId |-> "1", status |-> "PAID", items |-> <<>>, total |-> 0],
       [id |-> "order5", tableId |-> 2, status |-> "PENDING", items |-> <<>>, total |-> 0] >>

\* getDocs(query(collection(db, 'orders'), where('tableId', '==', value))):
\* the identifier and the status of every matching document, as they are
\* when the backend answers.
QueryOrders(value) ==
    LET matching == SelectSeq(cloudOrders, LAMBDA o : StrictEquals(o.tableId, value))
    IN  [i \in 1..Len(matching) |-> [id |-> matching[i].id, status |-> matching[i].status]]

\* The test of processDoc with the PAID status left out.
MustArchiveUnlessCanceled(data) == data.status # "CANCELED"

\* data.status !== CANCELED && data.status !== PAID
MustArchive(data) == data.status # "CANCELED" /\ data.status # "PAID"

\* snap1.forEach(processDoc); snap2.forEach(processDoc): the identifiers an
\* updateDoc is issued for, in order; a document seen before is skipped.
RECURSIVE ProcessDocs(_, _)
ProcessDocs(docs, docsProcessed) ==
    IF docs = <<>> THEN <<>>
    ELSE IF Head(docs).id \in docsProcessed
         THEN ProcessDocs(Tail(docs), docsProcessed)
         ELSE (IF MustArchive(Head(docs)) THEN <<Head(docs).id>> ELSE <<>>)
              \o ProcessDocs(Tail(docs), docsProcessed \cup {Head(docs).id})

\* updateDoc(doc(db, 'orders', id), { status })
SetStatus(docs, id, status) ==
    [i \in 1..Len(docs) |-> IF docs[i].id = id THEN [docs[i] EXCEPT !.status = status] ELSE docs[i]]

\* finalizeTable awaits deleteDoc of the table's document.
CloudFinalizeStart(c, tableId) ==
    /\ inflight[c].pc = "idle"
    /\ inflight' = [inflight EXCEPT ![c] =
                       [pc |-> "deleteDoc", op |-> "finalizeTable", tableId |-> tableId,
                        snap1 |-> NULL, snap2 |-> NULL, issued |-> <<>>, pending |-> {},
                        applied |-> <<>>]]
    /\ UNCHANGED <<cloudProducts, cloudOrders, cloudTables>>
    /\ UNCHANGED <<fallbackVars, kvVars, subVars, connVars>>

\* The backend deletes the document; the call resumes and issues both
\* queries.
CloudDeleteTable(c) ==
    /\ inflight[c].pc = "deleteDoc"
    /\ cloudTables' = RemoveTable(cloudTables, inflight[c].tableId)
    /\ inflight' = [inflight EXCEPT ![c].pc = "getDocs"]
    /\ UNCHANGED <<cloudProducts, cloudOrders>>
    /\ UNCHANGED <<fallbackVars, kvVars, subVars, connVars>>

\* What the call does when both snapshots are there: processDoc over both,
\* one updateDoc issued per order to archive; with none issued it returns.
AfterQueries(call) ==
    IF call.snap1 = NULL \/ call.snap2 = NULL
    THEN call
    ELSE LET ids == ProcessDocs(call.snap1[1] \o call.snap2[1], {})
         IN  [call EXCEPT !.issued = ids,
                          !.pending = {ids[i] : i \in 1..Len(ids)},
                          !.pc = IF ids = <<>> THEN "returned" ELSE "archiving"]

\* The backend answers one of the two queries: q = 1 the one by number,
\* q = 2 the one by tableId.toString().
CloudAnswerQuery(c, q) ==
    /\ inflight[c].pc = "getDocs"
    /\ IF q = 1
       THEN /\ inflight[c].snap1 = NULL
            /\ inflight' = [inflight EXCEPT ![c] =
                   AfterQueries([inflight[c] EXCEPT
                       !.snap1 = Item(QueryOrders(inflight[c].tableId))])]
       ELSE /\ inflight[c].snap2 = NULL
            /\ inflight' = [inflight EXCEPT ![c] =
                   AfterQueries([inflight[c] EXCEPT
                       !.snap2 = Item(QueryOrders(ToString(inflight[c].tableId)))])]
    /\ UNCHANGED <<cloudProducts, cloudOrders, cloudTables>>
    /\ UNCHANGED <<fallbackVars, kvVars, subVars, connVars>>

\* The updates of a call that the backend has still to apply.
Pending(c) == IF inflight[c].pc = "archiving" THEN inflight[c].pending ELSE {}

\* The backend applies one of the updates issued, in any order; the call
\* returns when Promise.all has seen the last of them.
CloudApplyArchive(c, id) ==
    /\ id \in Pending(c)
    /\ cloudOrders' = SetStatus(cloudOrders, id, "PAID")
    /\ inflight' = [inflight EXCEPT
                       ![c].pending = @ \ {id},
                       ![c].applied = Append(@, id),
                       ![c].pc = IF inflight[c].pending = {id} THEN "returned" ELSE "archiving"]
    /\ UNCHANGED <<cloudProducts, cloudTables>>
    /\ UNCHANGED <<fallbackVars, kvVars, subVars, connVars>>

\* updateOrderStatus, cloud branch, of any client: one updateDoc.
CloudUpdateOrderStatus(orderId, status) ==
    /\ cloudOrders' = SetStatus(cloudOrders, orderId, status)
    /\ cloudOrders' # cloudOrders
    /\ UNCHANGED <<cloudProducts, cloudTables, inflight>>
    /\ UNCHANGED <<fallbackVars, kvVars, subVars, connVars>>

\* requestTableClose, cloud branch, of any client: one setDoc with merge.
CloudRequestTableClose(tableId, paymentMethod) ==
    /\ cloudTables' = RequestTableCloseLocal(cloudTables, tableId, paymentMethod)
    /\ cloudTables' # cloudTables
    /\ UNCHANGED <<cloudProducts, cloudOrders, inflight>>
    /\ UNCHANGED <<fallbackVars, kvVars, subVars, connVars>>

(***************************************************************************)
(* saveProduct, cloud branch, beside the calls of other clients.           *)
(***************************************************************************)
\* const { id, ...data } = product
ProductData(product) == [name |-> product.name, price |-> product.price, stock |-> product.stock]

\* The ids of the documents a query by name returns.
NamedAs(name) == {id \in DOMAIN cloudProducts : cloudProducts[id].name = name}

\* querySnapshot.docs[0]: the first of them in the backend's order of
\* identifiers, which the backend draws at random; "" when there is none.
FirstNamedAs(name) ==
    IF NamedAs(name) = {} THEN ""
    ELSE CHOOSE id \in NamedAs(name) : TRUE

\* The identifier the backend gives a new document.
NewProductId == "p" \o ToString(Cardinality(DOMAIN cloudProducts) + 1)

\* saveProduct with an identifier awaits updateDoc; without one it awaits
\* the query by name.
CloudSaveProductStart(c, product) ==
    /\ inflight[c].pc = "idle"
    /\ inflight' = [inflight EXCEPT ![c] =
                       [pc |-> IF product.id # "" THEN "updateDoc" ELSE "getDocs",
                        op |-> "saveProduct", product |-> product,
                        path |-> IF product.id # "" THEN "update" ELSE "",
                        target |-> product.id, read |-> 0]]
    /\ UNCHANGED <<cloudProducts, cloudOrders, cloudTables>>
    /\ UNCHANGED <<fallbackVars, kvVars, subVars, connVars>>

\* The backend applies updateDoc(docRef, data), or rejects it when no such
\* document exists: the catch alerts and throws.
CloudApplyProductUpdate(c) ==
    /\ inflight[c].pc = "updateDoc"
    /\ IF inflight[c].target \in DOMAIN cloudProducts
       THEN /\ cloudProducts' = [cloudProducts EXCEPT
                                    ![inflight[c].target] = ProductData(inflight[c].product)]
            /\ inflight' = [inflight EXCEPT ![c].pc = "saved"]
       ELSE /\ UNCHANGED cloudProducts
            /\ inflight' = [inflight EXCEPT ![c].pc = "failed"]
    /\ UNCHANGED <<cloudOrders, cloudTables>>
    /\ UNCHANGED <<fallbackVars, kvVars, subVars, connVars>>

\* The backend answers the query by name: with a document, the call reads
\* its stock and awaits updateDoc of the sum; with none, it awaits addDoc.
CloudAnswerNameQuery(c) ==
    /\ inflight[c].pc = "getDocs"
    /\ inflight[c].op = "saveProduct"
    /\ LET existing == FirstNamedAs(inflight[c].product.name)
       IN  inflight' = [inflight EXCEPT ![c] =
               IF existing # ""
               THEN [@ EXCEPT !.pc = "restock", !.path = "restock", !.target = existing,
                              !.read = cloudProducts[existing].stock]
               ELSE [@ EXCEPT !.pc = "addProduct", !.path = "create"]]
    /\ UNCHANGED <<cloudProducts, cloudOrders, cloudTables>>
    /\ UNCHANGED <<fallbackVars, kvVars, subVars, connVars>>

\* stock: currentStock + product.stock, computed by the client from the
\* stock it read.
RestockedStock(currentStock, amount) == currentStock + amount

\* The backend applies the updateDoc of a restock.
CloudApplyRestock(c) ==
    /\ inflight[c].pc = "restock"
    /\ cloudProducts' = [cloudProducts EXCEPT
           ![inflight[c].target].stock =
               RestockedStock(inflight[c].read, inflight[c].product.stock),
           ![inflight[c].target].price = inflight[c].product.price]
    /\ inflight' = [inflight EXCEPT ![c].pc = "saved"]
    /\ UNCHANGED <<cloudOrders, cloudTables>>
    /\ UNCHANGED <<fallbackVars, kvVars, subVars, connVars>>

\* The backend applies addDoc(collection(db, 'products'), data).
CloudAddProduct(c) ==
    /\ inflight[c].pc = "addProduct"
    /\ cloudProducts' = [id \in DOMAIN cloudProducts \cup {NewProductId} |->
                            IF id = NewProductId THEN ProductData(inflight[c].product)
                            ELSE cloudProducts[id]]
    /\ inflight' = [inflight EXCEPT ![c].pc = "saved", ![c].target = NewProductId]
    /\ UNCHANGED <<cloudOrders, cloudTables>>
    /\ UNCHANGED <<fallbackVars, kvVars, subVars, connVars>>

\* The products saved in cloud mode: a restock of a product of the catalog,
\* a product of a new name, an edit under an identifier.
CloudSaveInputs ==
    { [id |-> "", name |-> "Cerveja", price |-> 15, stock |-> 10],
      [id |-> "", name |-> "Suco", price |-> 8, stock |-> 5],
      [id |-> "pA", name |-> "Cerveja", price |-> 8, stock |-> 10] }

(***************************************************************************)
(* safeStorage: the fallback key-value store.  Every access to             *)
(* localStorage may throw (storage blocked, quota exceeded): blocked says  *)
(* whether the access of the call at hand does.                            *)
(***************************************************************************)
StoreKeys == {"k1", "k2"}
\* The values stored are JSON texts, never the empty string.
StoreValues == {"a", "b"}

\* memoryStore.get(key) || null: an absent key and the empty string give null.
MemoryOrNull(key) ==
    IF key \in DOMAIN memoryStore /\ memoryStore[key] # ""
    THEN Item(memoryStore[key])
    ELSE NULL

\* What getItem(key) returns.
GetItemResult(key, blocked) ==
    IF blocked
    THEN MemoryOrNull(key)
    ELSE IF localStorage[key] = NULL /\ key \in DOMAIN memoryStore
         THEN MemoryOrNull(key)
         ELSE localStorage[key]

\* memoryStore.set(key, value)
MemorySet(key, value) ==
    [k \in DOMAIN memoryStore \cup {key} |-> IF k = key THEN value ELSE memoryStore[k]]

\* memoryStore.delete(key)
MemoryDelete(key) == [k \in DOMAIN memoryStore \ {key} |-> memoryStore[k]]

\* A safeStorage call is counted.
StoreCall == kvLast.n < MaxStoreCalls

\* The record of the call notes the call made before it.
GetItem(key, blocked) ==
    /\ StoreCall
    /\ kvLast' = [op |-> "getItem", key |-> key, result |-> GetItemResult(key, blocked),
                  n |-> kvLast.n + 1, previous |-> [op |-> kvLast.op, key |-> kvLast.key]]
    /\ UNCHANGED <<localStorage, memoryStore, written>>
    /\ UNCHANGED <<fallbackVars, cloudVars, subVars, connVars>>

SetItem(key, value, blocked) ==
    /\ StoreCall
    /\ memoryStore' = MemorySet(key, value)
    /\ localStorage' = IF blocked THEN localStorage
                       ELSE [localStorage EXCEPT ![key] = Item(value)]
    /\ written' = [written EXCEPT ![key] = Item([value |-> value, failed |-> blocked])]
    /\ kvLast' = [op |-> "setItem", key |-> key, result |-> NULL, n |-> kvLast.n + 1]
    /\ UNCHANGED <<fallbackVars, cloudVars, subVars, connVars>>

RemoveItem(key, blocked) ==
    /\ StoreCall
    /\ memoryStore' = MemoryDelete(key)
    /\ localStorage' = IF blocked THEN localStorage
                       ELSE [localStorage EXCEPT ![key] = NULL]
    /\ written' = [written EXCEPT ![key] = NULL]
    /\ kvLast' = [op |-> "removeItem", key |-> key, result |-> NULL, n |-> kvLast.n + 1]
    /\ UNCHANGED <<fallbackVars, cloudVars, subVars, connVars>>

\* The medium holds what earlier sessions left; the Map is empty.
InitStore ==
    /\ memoryStore = [k \in {} |-> ""]
    /\ written = [k \in StoreKeys |-> NULL]
    /\ kvLast = [op |-> "init", key |-> "", result |-> NULL, n |-> 0]

NextStore ==
    \/ \E key \in StoreKeys : \E blocked \in BOOLEAN : GetItem(key, blocked)
    \/ \E key \in StoreKeys : \E value \in StoreValues : \E blocked \in BOOLEAN :
          SetItem(key, value, blocked)
    \/ \E key \in StoreKeys : \E blocked \in BOOLEAN : RemoveItem(key, blocked)

(***************************************************************************)
(* Fallback-mode subscriptions: fetch() delivers the stored collection to  *)
(* the callback, at once and then at every tick of the interval, until the *)
(* returned function clears the interval.                                  *)
(***************************************************************************)
\* One subscription is followed: every subscription has an interval and a
\* callback of its own, and shares with the others nothing but the store.
SubIds == {1}
SubKinds == {"products", "orders", "tables"}

Unused == [state |-> "unused", kind |-> "", count |-> 0, delivered |-> <<>>, stoppedAt |-> 0]

\* What fetch() leaves under the products key: the seed when nothing is stored.
FetchedProducts == IF products = NULL THEN Item(INITIAL_PRODUCTS) ELSE products

\* What fetch() passes to the callback.
Fetched(kind) ==
    IF kind = "products" THEN ParseList(FetchedProducts)
    ELSE IF kind = "orders" THEN ParseList(orders)
    ELSE ParseMap(tables)

\* fetch() of subscription s: the callback is invoked with the collection,
\* and the seed is stored when nothing was.
Fetch(s, kind, state) ==
    /\ products' = IF kind = "products" THEN FetchedProducts ELSE products
    /\ subs' = [subs EXCEPT ![s].count = @ + 1, ![s].delivered = Fetched(kind),
                            ![s].state = state, ![s].kind = kind]
    /\ UNCHANGED <<orders, tables, now, calls, last>>
    /\ UNCHANGED <<cloudVars, kvVars, connVars>>

\* setInterval(fetch, 2000): the runtime holds the interval.
SetInterval(held, id) == held \cup {id}

\* clearInterval(interval) leaving the interval in place.
ClearNothing(held, id) == held

\* clearInterval(interval): the runtime drops the interval.
ClearInterval(held, id) == held \ {id}

\* subscribeProducts / subscribeOrders / subscribeTables, fallback branch.
Subscribe(s, kind) ==
    /\ subs[s].state = "unused"
    /\ Fetch(s, kind, "active")
    /\ timers' = SetInterval(timers, s)
    /\ subLast' = [op |-> "subscribe", sub |-> s, count |-> subs[s].count, calls |-> calls]

\* The runtime fires an interval it holds.
TimerTick(s) ==
    /\ s \in timers
    /\ subs[s].count < MaxDeliveries
    /\ Fetch(s, subs[s].kind, subs[s].state)
    /\ subLast' = [op |-> "tick", sub |-> s, count |-> subs[s].count, calls |-> calls]
    /\ UNCHANGED timers

\* The function a subscription returned is called.
Unsubscribe(s) ==
    /\ subs[s].state = "active"
    /\ timers' = ClearInterval(timers, s)
    /\ subs' = [subs EXCEPT ![s].state = "cancelled", ![s].stoppedAt = subs[s].count]
    /\ subLast' = [op |-> "unsubscribe", sub |-> s, count |-> subs[s].count, calls |-> calls]
    /\ UNCHANGED <<fallbackVars, cloudVars, kvVars, connVars>>

InitSubs ==
    /\ subs = [s \in SubIds |-> Unused]
    /\ timers = {}
    /\ subLast = [op |-> "init", sub |-> 0, count |-> 0, calls |-> 0]

\* The orders taken while subscriptions run.
SubItemLists == {<<[product |-> p, quantity |-> 1]>> : p \in Orderable \ {StaleProduct}}

NextSubs ==
    \/ \E s \in SubIds : \E kind \in SubKinds : Subscribe(s, kind)
    \/ \E s \in SubIds : TimerTick(s)
    \/ \E s \in SubIds : Unsubscribe(s)
    \/ calls < MaxCalls /\ \E id \in CatalogIds : DeleteProduct(id)
    \/ calls < MaxCalls /\ \E items \in SubItemLists : CreateOrder(1, items)
    \/ calls < MaxCalls /\ RequestTableClose(1, "card")

(***************************************************************************)
(* The backend selector: init, saveConfig, clearConfig, isUsingCloud.      *)
(* A configuration is kept with its apiKey and its projectId.  The         *)
(* Firebase SDK registers at most one app per page (the default app), and  *)
(* db is the Firestore instance of an app: both are written as Item of the *)
(* options the app was registered with.                                    *)
(***************************************************************************)
MaxInitCalls == 3   \* a behaviour runs init at most this many times after the page loaded

\* What ./firebaseConfig may hold: real credentials, the placeholder text of
\* an unfilled template, or no key.
CompiledConfigs ==
    { [apiKey |-> "AIzaFixed", projectId |-> "fixed"],
      [apiKey |-> "COLAR_SUA_API_KEY", projectId |-> "fixed"],
      [apiKey |-> "", projectId |-> "fixed"] }

\* The configurations a caller passes to init and saveConfig.
UserConfigs ==
    { [apiKey |-> "AIzaUser", projectId |-> "user"],
      [apiKey |-> "", projectId |-> "user"] }

\* String.prototype.includes
Includes(text, part) ==
    \E i \in 1..(Len(text) - Len(part) + 1) : SubSeq(text, i, i + Len(part) - 1) = part

\* firebaseConfig.apiKey && !firebaseConfig.apiKey.includes('COLAR_')
CompiledValid(config) == config.apiKey # "" /\ ~Includes(config.apiKey, "COLAR_")

\* isUsingCloud(): !!db
IsUsingCloud == db # NULL

\* The configuration init resolves with the argument put before the
\* compiled-in configuration.
ResolveConfigArgFirst(arg, saved) ==
    IF arg # NULL
    THEN [config |-> arg, readSaved |-> FALSE]
    ELSE IF CompiledValid(firebaseConfig)
         THEN [config |-> Item(firebaseConfig), readSaved |-> FALSE]
         ELSE [config |-> saved, readSaved |-> TRUE]

\* The configuration init resolves (NULL for none), and whether it read the
\* saved one: the compiled-in configuration when valid, else the argument,
\* else what is stored under DB_CONFIG.
ResolveConfig(arg, saved) ==
    IF CompiledValid(firebaseConfig)
    THEN [config |-> Item(firebaseConfig), readSaved |-> FALSE]
    ELSE IF arg = NULL
         THEN [config |-> saved, readSaved |-> TRUE]
         ELSE [config |-> arg, readSaved |-> FALSE]

\* A failed attempt that leaves the service holding the app's instance.
FailedConnected(registry, handle) ==
    [apps |-> registry, db |-> registry, returned |-> "false", failure |-> "error"]

\* The attempt failed with an error other than app/duplicate-app: init
\* returns false and assigns nothing to db.
Failed(registry, handle) ==
    [apps |-> registry, db |-> handle, returned |-> "false", failure |-> "error"]

\* initializeApp(config); getFirestore(app), and the catch of line 114.
\* initializeApp registers the app, returns the registered one when the
\* options are the same, and throws app/duplicate-app when they differ;
\* getFirestore throws where Firestore is not available.
Connect(config, registry, handle) ==
    IF registry # NULL /\ registry # Item(config)
    THEN IF firestoreAvailable
         THEN [apps |-> registry, db |-> registry, returned |-> "true", failure |-> "duplicate"]
         ELSE [apps |-> registry, db |-> handle, returned |-> "raised", failure |-> "duplicate"]
    ELSE IF firestoreAvailable
         THEN [apps |-> Item(config), db |-> Item(config), returned |-> "true", failure |-> "none"]
         ELSE Failed(Item(config), handle)

\* init(arg) run with an app registry, a value of db and a saved
\* configuration: what it leaves, what it returns, and what it went through.
InitOutcome(arg, registry, handle, saved) ==
    IF registry # NULL /\ firestoreAvailable
    THEN [apps |-> registry, db |-> registry, returned |-> "true", failure |-> "none",
          reused |-> TRUE, config |-> NULL, readSaved |-> FALSE, attempted |-> FALSE]
    ELSE LET r == ResolveConfig(arg, saved)
             usable == r.config # NULL /\ r.config[1].apiKey # ""
             c == IF usable
                  THEN Connect(r.config[1], registry, handle)
                  ELSE [apps |-> registry, db |-> handle, returned |-> "false", failure |-> "none"]
         IN  [apps |-> c.apps, db |-> c.db, returned |-> c.returned, failure |-> c.failure,
              reused |-> FALSE, config |-> r.config, readSaved |-> r.readSaved,
              attempted |-> usable]

\* The record of a run of init.
InitRecord(op, arg, registry, handle, saved, n) ==
    [op |-> op, arg |-> arg, n |-> n, saved |-> saved,
     outcome |-> InitOutcome(arg, registry, handle, saved)]

\* A run of init, by itself or at the end of another operation.
RunInit(op, arg, registry, handle, saved) ==
    /\ initLast.n < MaxInitCalls
    /\ initLast' = InitRecord(op, arg, registry, handle, saved, initLast.n + 1)
    /\ db' = initLast'.outcome.db
    /\ apps' = initLast'.outcome.apps
    /\ savedConfig' = saved
    /\ UNCHANGED <<firebaseConfig, firestoreAvailable>>
    /\ UNCHANGED <<fallbackVars, cloudVars, localStorage, written, kvLast, subs, subLast>>

\* StorageService.init(config)
StorageServiceInit(arg) ==
    /\ RunInit("init", arg, apps, db, savedConfig)
    /\ UNCHANGED <<memoryStore, timers>>

\* saveConfig(config): the configuration is stored, then init(config).
SaveConfig(config) ==
    /\ RunInit("saveConfig", Item(config), apps, db, Item(config))
    /\ UNCHANGED <<memoryStore, timers>>

\* The page loads: nothing of the page before is left but the medium, and
\* the module runs init() (line 479).
PageLoad(op, saved) ==
    /\ RunInit(op, NULL, NULL, NULL, saved)
    /\ memoryStore' = [k \in {} |-> ""]
    /\ timers' = {}

\* clearConfig(): the saved configuration is removed, db is unset and the
\* page reloads.
ClearConfig == PageLoad("clearConfig", NULL)

\* The user reloads the page.
Reload == PageLoad("load", savedConfig)

\* The state the module's own init() leaves when the page has loaded, for
\* the compiled-in configurations, environments and saved configurations
\* given.
InitBackend(compiled, available, saved) ==
    /\ firebaseConfig \in compiled
    /\ firestoreAvailable \in available
    /\ savedConfig \in saved
    /\ initLast = InitRecord("load", NULL, NULL, NULL, savedConfig, 0)
    /\ db = initLast.outcome.db
    /\ apps = initLast.outcome.apps

\* A deployment with the template's placeholder for credentials: the service
\* runs in fallback mode.
FallbackMode == InitBackend({c \in CompiledConfigs : Includes(c.apiKey, "COLAR_")}, {TRUE}, {NULL})

\* A deployment with credentials: the service runs in cloud mode.
CloudMode == InitBackend({c \in CompiledConfigs : CompiledValid(c)}, {TRUE}, {NULL})

NextBackend ==
    \/ \E arg \in {NULL} \cup {Item(c) : c \in UserConfigs} : StorageServiceInit(arg)
    \/ \E config \in UserConfigs : SaveConfig(config)
    \/ ClearConfig
    \/ Reload

\* The fallback store with nothing written yet.
InitFallback ==
    /\ orders = NULL
    /\ tables = NULL
    /\ now = 0
    /\ calls = 0
    /\ last = [call |-> [op |-> "init"], products |-> products, orders |-> NULL, tables |-> NULL]

\* What the specifications of the service leave alone of the key-value store.
IdleStore ==
    /\ localStorage = [k \in StoreKeys |-> NULL]
    /\ InitStore

Init ==
    /\ products \in {NULL, Item(INITIAL_PRODUCTS)}
    /\ InitFallback
    /\ InitCloud
    /\ IdleStore
    /\ InitSubs
    /\ FallbackMode

Next ==
    \/ calls < MaxCalls /\ \E product \in PriceEdits : SaveProduct(product)
    \/ calls < MaxCalls /\ \E id \in CatalogIds : DeleteProduct(id)
    \/ calls < MaxCalls /\ \E tableId \in TableIds : \E items \in ItemLists :
                              CreateOrder(tableId, items)
    \/ calls < MaxCalls /\ \E u \in StatusUpdates : UpdateOrderStatus(u[1], u[2])
    \/ calls < MaxCalls /\ \E tableId \in TableIds : \E pm \in PaymentMethods :
                              RequestTableClose(tableId, pm)
    \/ calls < MaxCalls /\ \E tableId \in TableIds : FinalizeTable(tableId)

Spec == Init /\ [][Next]_vars

\* Cloud mode: createOrder calls in flight together.
InitCloudMode ==
    /\ products = NULL
    /\ InitFallback
    /\ InitCloud
    /\ IdleStore
    /\ InitSubs
    /\ CloudMode

SpecCloudOrders == InitCloudMode /\ [][NextCloudOrders]_vars

\* Cloud mode: tables are finalized while other calls run.
InitCloudFinalize ==
    /\ products = NULL
    /\ InitFallback
    /\ IdleStore
    /\ InitSubs
    /\ CloudMode
    /\ cloudProducts = CloudCatalog
    /\ cloudOrders = StoredOrders
    /\ cloudTables = EmptyMap
    /\ inflight = [c \in CallIds |-> Idle]

\* The call that starts next: calls are numbered in the order they start.
NextCall == {c \in CallIds : inflight[c].pc = "idle" /\ \A d \in 1..(c - 1) : inflight[d].pc # "idle"}

\* The orders another client cancels meanwhile: one stored, and the first
\* one taken.
Cancellable == {"order1", "order6"} \cap {cloudOrders[i].id : i \in 1..Len(cloudOrders)}

\* Calls of finalizeTable for table 1, while orders are taken for it and
\* cancelled and its close is requested.
NextCloudFinalize ==
    \/ \E c \in NextCall : CloudFinalizeStart(c, 1)
    \/ \E c \in CallIds : CloudDeleteTable(c)
    \/ \E c \in CallIds : \E q \in {1, 2} : CloudAnswerQuery(c, q)
    \/ \E c \in CallIds : \E id \in Pending(c) : CloudApplyArchive(c, id)
    \/ \E c \in NextCall : CloudCreateOrderStart(c, 1, <<[product |-> CloudProduct("pA"), quantity |-> 1]>>)
    \/ \E c \in CallIds : CloudAddOrder(c)
    \/ \E c \in CallIds : CloudApplyIncrement(c)
    \/ \E id \in Cancellable : CloudUpdateOrderStatus(id, "CANCELED")
    \/ CloudRequestTableClose(1, "card")

SpecCloudFinalize == InitCloudFinalize /\ [][NextCloudFinalize]_vars

\* The key-value store alone.
InitStoreOnly ==
    /\ products = NULL
    /\ InitFallback
    /\ InitCloud
    /\ InitSubs
    /\ localStorage \in [StoreKeys -> {NULL} \cup {Item(v) : v \in StoreValues}]
    /\ InitStore
    /\ FallbackMode

SpecStore == InitStoreOnly /\ [][NextStore]_vars

\* Fallback mode with subscriptions.
SpecSubs == Init /\ [][NextSubs]_vars

\* The catalog alone, with every product a caller may pass.
NextCatalog ==
    \/ calls < MaxCalls /\ \E product \in ProductInputs : SaveProduct(product)
    \/ calls < MaxCalls /\ \E id \in CallerIds : DeleteProduct(id)

SpecCatalog == Init /\ [][NextCatalog]_vars

(***************************************************************************)
(* saveProduct where something fails: in fallback mode the medium refuses  *)
(* the write (storage full), in cloud mode the backend rejects a call.     *)
(* Here the products key is followed down to the medium and the Map, as    *)
(* safeStorage keeps it, with its value in parsed form.                    *)
(***************************************************************************)
PRODUCTS == "beach_app_products"

\* What safeStorage.getItem(key) returns from a medium that can be read and
\* a Map: the medium's value, and the Map's only when the medium has none.
Served(medium, memory, key) ==
    IF medium[key] = NULL /\ key \in DOMAIN memory
    THEN Item(memory[key])
    ELSE medium[key]

\* The errors the backend rejects a call with.
BackendErrors == {"permission-denied", "resource-exhausted", "unavailable"}

\* The alert of the catch at lines 248-256, by error code.
AlertFor(code) ==
    IF code = "permission-denied" THEN "ERRO DE PERMISSAO"
    ELSE IF code = "resource-exhausted" THEN "A imagem e muito pesada"
    ELSE "Erro ao salvar"

\* saveProduct, fallback branch, with the write of safeStorage.setItem: the
\* Map always takes the value, the medium only when it is not full.  Nothing
\* of a refused write reaches the try of line 271: no alert, and the call
\* completes.
SaveProductStored(product, full) ==
    \E t \in Readings(NeedsId(product.id)) :
        LET list == SaveProductLocal(ParseList(products), product, t)
        IN  /\ ~IsUsingCloud
            /\ calls < MaxCalls
            /\ memoryStore' = MemorySet(PRODUCTS, list)
            /\ localStorage' = IF full THEN localStorage
                               ELSE [localStorage EXCEPT ![PRODUCTS] = Item(list)]
            /\ products' = Served(localStorage', memoryStore', PRODUCTS)
            /\ now' = t
            /\ calls' = calls + 1
            /\ last' = [call |-> [op |-> "saveProduct", product |-> product,
                                  error |-> IF full THEN "storage-full" ELSE "none",
                                  alerted |-> "", raised |-> FALSE],
                        products |-> products, orders |-> orders, tables |-> tables]
            /\ UNCHANGED <<orders, tables, written, kvLast>>
            /\ UNCHANGED <<cloudVars, subVars, connVars>>

\* saveProduct, cloud branch, when the backend rejects the call it awaits
\* (updateDoc, getDocs or addDoc): nothing is written, the catch alerts by
\* error code and throws the error again.
CloudSaveProductRejected(product, code) ==
    /\ IsUsingCloud
    /\ calls < MaxCalls
    /\ calls' = calls + 1
    /\ last' = [call |-> [op |-> "saveProduct", product |-> product, error |-> code,
                          alerted |-> AlertFor(code), raised |-> TRUE],
                products |-> products, orders |-> orders, tables |-> tables]
    /\ UNCHANGED <<products, orders, tables, now>>
    /\ UNCHANGED <<cloudVars, kvVars, subVars, connVars>>

\* The products a caller saves while calls fail.
SaveInputs == {p \in ProductInputs : p.price = 8 /\ p.stock = 10}

InitSaveErrors ==
    /\ products \in {NULL, Item(INITIAL_PRODUCTS)}
    /\ InitFallback
    /\ InitCloud
    /\ InitSubs
    /\ InitStore
    /\ localStorage = [k \in {PRODUCTS} |-> products]
    /\ InitBackend(CompiledConfigs, {TRUE}, {NULL})

NextSaveErrors ==
    \/ \E product \in SaveInputs : \E full \in BOOLEAN : SaveProductStored(product, full)
    \/ \E product \in SaveInputs : \E code \in BackendErrors :
          CloudSaveProductRejected(product, code)

SpecSaveErrors == InitSaveErrors /\ [][NextSaveErrors]_vars

\* Cloud mode: products are saved while orders are taken.
NextCloudRestock ==
    \/ \E c \in NextCall : \E product \in CloudSaveInputs : CloudSaveProductStart(c, product)
    \/ \E c \in CallIds : CloudApplyProductUpdate(c)
    \/ \E c \in CallIds : CloudAnswerNameQuery(c)
    \/ \E c \in CallIds : CloudApplyRestock(c)
    \/ \E c \in CallIds : CloudAddProduct(c)
    \/ \E c \in NextCall : \E quantity \in Quantities :
          CloudCreateOrderStart(c, 1, <<[product |-> CloudProduct("pA"), quantity |-> quantity]>>)
    \/ \E c \in CallIds : CloudAddOrder(c)
    \/ \E c \in CallIds : CloudApplyIncrement(c)

SpecCloudRestock == InitCloudMode /\ [][NextCloudRestock]_vars

\* The backend selector alone, over every deployment and environment.
InitBackendOnly ==
    /\ products = NULL
    /\ InitFallback
    /\ InitCloud
    /\ IdleStore
    /\ InitSubs
    /\ InitBackend(CompiledConfigs, BOOLEAN, {NULL} \cup {Item(c) : c \in UserConfigs})

SpecBackend == InitBackendOnly /\ [][NextBackend]_vars

(***************************************************************************)
(* What the latest call found, and helpers to state what it did.           *)
(***************************************************************************)
CatalogBefore == ParseList(last.products)

OrdersBefore == ParseList(last.orders)

TablesBefore == ParseMap(last.tables)

\* The record an identifier resolves to in a list: the first one, or 0.
Resolve(list, id) == FindIndex([i \in 1..Len(list) |-> list[i].id = id])

\* The record a name resolves to in a list: the first one, or 0.
ResolveName(list, name) == FindIndex([i \in 1..Len(list) |-> list[i].name = name])

\* The quantity the line items ask of the record at index k of a list.
RECURSIVE QuantityFor(_, _, _)
QuantityFor(lines, list, k) ==
    IF lines = <<>> THEN 0
    ELSE (IF Resolve(list, Head(lines).productId) = k THEN Head(lines).quantity ELSE 0)
         + QuantityFor(Tail(lines), list, k)

\* The sum of price x quantity over line items.
RECURSIVE SumLines(_)
SumLines(lines) ==
    IF lines = <<>> THEN 0
    ELSE Head(lines).price * Head(lines).quantity + SumLines(Tail(lines))

(***************************************************************************)
(* C1: a saveProduct call with an empty identifier and the name of a       *)
(* record of the catalog adds the incoming stock to that record's stock    *)
(* and leaves the number of records unchanged.                             *)
(***************************************************************************)
C1_IsRestock ==
    /\ last.call.op = "saveProduct"
    /\ last.call.product.id = ""
    /\ ResolveName(CatalogBefore, last.call.product.name) > 0

C1_RestockMerge ==
    C1_IsRestock =>
        LET k == ResolveName(CatalogBefore, last.call.product.name)
        IN  /\ Len(Catalog) = Len(CatalogBefore)
            /\ Catalog[k].id = CatalogBefore[k].id
            /\ Catalog[k].stock = CatalogBefore[k].stock + last.call.product.stock

C1_Witness == C1_IsRestock /\ last.call.product.stock > 0

(***************************************************************************)
(* C2: no two records of the catalog have the same name.                   *)
(***************************************************************************)
C2_UniqueNames ==
    \A i, j \in 1..Len(Catalog) : i # j => Catalog[i].name # Catalog[j].name

(***************************************************************************)
(* C3: no stock is negative, and a createOrder call with a line item whose *)
(* quantity exceeds the stock of its product leaves that stock at 0.       *)
(***************************************************************************)
C3_Exceeds(item) ==
    /\ Resolve(CatalogBefore, item.product.id) > 0
    /\ item.quantity > CatalogBefore[Resolve(CatalogBefore, item.product.id)].stock

C3_StockFloor ==
    /\ \A i \in 1..Len(Catalog) : Catalog[i].stock >= 0
    /\ last.call.op = "createOrder" =>
          \A n \in 1..Len(last.call.items) :
              C3_Exceeds(last.call.items[n]) =>
                  Catalog[Resolve(CatalogBefore, last.call.items[n].product.id)].stock = 0

C3_Witness ==
    /\ last.call.op = "createOrder"
    /\ \E n \in 1..Len(last.call.items) : C3_Exceeds(last.call.items[n])

(***************************************************************************)
(* C4: updateOrderStatus(orderId, CANCELED) on a stored order that is not  *)
(* CANCELED adds to every record of the catalog the quantities of the line *)
(* items with its identifier, once; on an order that is CANCELED already   *)
(* it leaves the catalog as it was.  The order of an identifier is the one *)
(* the call finds: the first with that identifier.                         *)
(***************************************************************************)
C4_IsCancel ==
    /\ last.call.op = "updateOrderStatus"
    /\ last.call.status = "CANCELED"
    /\ Resolve(OrdersBefore, last.call.orderId) > 0

C4_Canceled == OrdersBefore[Resolve(OrdersBefore, last.call.orderId)]

C4_CancelRestores ==
    C4_IsCancel =>
        IF C4_Canceled.status # "CANCELED"
        THEN /\ Len(Catalog) = Len(CatalogBefore)
             /\ \A k \in 1..Len(Catalog) :
                   Catalog[k] = [CatalogBefore[k] EXCEPT
                       !.stock = @ + QuantityFor(C4_Canceled.items, CatalogBefore, k)]
        ELSE products = last.products

C4_Witness ==
    /\ C4_IsCancel
    /\ C4_Canceled.status = "CANCELED"
    /\ \E k \in 1..Len(CatalogBefore) : QuantityFor(C4_Canceled.items, CatalogBefore, k) > 0

(***************************************************************************)
(* C7: finalizeTable(t) removes the TableState of t, sets to PAID every    *)
(* order of t that is neither CANCELED nor PAID, and leaves the CANCELED   *)
(* orders of t, the orders of other tables and the other TableStates as    *)
(* they were.                                                              *)
(***************************************************************************)
C7_Finalize ==
    last.call.op = "finalizeTable" =>
        LET t == last.call.tableId
        IN  /\ DOMAIN ParseMap(tables) = DOMAIN TablesBefore \ {TableKey(t)}
            /\ \A k \in DOMAIN ParseMap(tables) : ParseMap(tables)[k] = TablesBefore[k]
            /\ Len(OrderList) = Len(OrdersBefore)
            /\ \A i \in 1..Len(OrdersBefore) :
                  LET o == OrdersBefore[i]
                  IN  IF o.tableId = t /\ o.status \notin {"CANCELED", "PAID"}
                      THEN OrderList[i] = [o EXCEPT !.status = "PAID"]
                      ELSE OrderList[i] = o

C7_Witness ==
    /\ last.call.op = "finalizeTable"
    /\ TableKey(last.call.tableId) \in DOMAIN TablesBefore
    /\ \E i \in 1..Len(OrdersBefore) :
          OrdersBefore[i].tableId = last.call.tableId /\ OrdersBefore[i].status = "PENDING"

(***************************************************************************)
(* C8: finalizeTable(t) is idempotent: in the state a call leaves, a       *)
(* second call to finalizeTable(t) would write the same orders and the     *)
(* same table map.                                                         *)
(***************************************************************************)
C8_Idempotent ==
    last.call.op = "finalizeTable" =>
        /\ FinalizeOrders(OrderList, last.call.tableId) = OrderList
        /\ RemoveTable(ParseMap(tables), last.call.tableId) = ParseMap(tables)

C8_Witness ==
    /\ last.call.op = "finalizeTable"
    /\ \E i \in 1..Len(OrdersBefore) :
          /\ OrdersBefore[i].tableId = last.call.tableId
          /\ OrdersBefore[i].status = "PENDING"
          /\ OrderList[i].status = "PAID"

(***************************************************************************)
(* C9: the order a createOrder call stores has the supplied names and      *)
(* prices and the total of price x quantity over them, and no call changes *)
(* the total or the line items of an order stored before it.               *)
(***************************************************************************)
C9_TotalFixed ==
    /\ Len(OrderList) >= Len(OrdersBefore)
    /\ \A i \in 1..Len(OrdersBefore) :
          /\ OrderList[i].total = OrdersBefore[i].total
          /\ OrderList[i].items = OrdersBefore[i].items
    /\ last.call.op = "createOrder" =>
          LET o == OrderList[Len(OrderList)]
              supplied == last.call.items
          IN  /\ Len(OrderList) = Len(OrdersBefore) + 1
              /\ Len(o.items) = Len(supplied)
              /\ \A n \in 1..Len(supplied) :
                    /\ o.items[n].name = supplied[n].product.name
                    /\ o.items[n].price = supplied[n].product.price
                    /\ o.items[n].quantity = supplied[n].quantity
              /\ o.total = SumLines(o.items)

\* A price is changed in the catalog while an order holds the old one.
C9_Witness ==
    /\ last.call.op = "saveProduct"
    /\ \E i \in 1..Len(OrderList) : \E n \in 1..Len(OrderList[i].items) :
          /\ OrderList[i].items[n].name = last.call.product.name
          /\ OrderList[i].items[n].price # last.call.product.price
          /\ \E k \in 1..Len(Catalog) :
                /\ Catalog[k].name = last.call.product.name
                /\ Catalog[k].price = last.call.product.price

(***************************************************************************)
(* C5: in cloud mode no decrement of concurrent createOrder calls is lost: *)
(* at every moment a product's stock is its initial stock minus the        *)
(* quantities of the updates applied so far, and so, once every call is    *)
(* done, minus the sum of all ordered quantities.                          *)
(***************************************************************************)
\* The quantity a list of items orders of the product with an identifier.
RECURSIVE Ordered(_, _)
Ordered(items, id) ==
    IF items = <<>> THEN 0
    ELSE (IF Head(items).product.id = id THEN Head(items).quantity ELSE 0)
         + Ordered(Tail(items), id)

\* The quantity of product id whose update the backend has applied for call c.
Applied(c, id) ==
    IF inflight[c].pc \in {"updating", "done"}
    THEN Ordered(inflight[c].items, id) - Ordered(inflight[c].todo, id)
    ELSE 0

RECURSIVE SumApplied(_, _)
SumApplied(cs, id) ==
    IF cs = {} THEN 0
    ELSE LET c == CHOOSE x \in cs : TRUE
         IN  Applied(c, id) + SumApplied(cs \ {c}, id)

C5_NoLostDecrement ==
    \A id \in DOMAIN cloudProducts :
        cloudProducts[id].stock = CloudCatalog[id].stock - SumApplied(CallIds, id)

\* Two calls that ordered one product have both finished, and the updates of
\* each were applied while the other was running.
C5_Witness ==
    \E c, d \in CallIds :
        /\ c # d
        /\ inflight[c].pc = "done" /\ inflight[d].pc = "done"
        /\ inflight[c].overlapped /\ inflight[d].overlapped
        /\ \E id \in DOMAIN cloudProducts :
              Ordered(inflight[c].items, id) > 0 /\ Ordered(inflight[d].items, id) > 0

(***************************************************************************)
(* C6: a getItem(key) that follows a setItem(key, v) whose write to the    *)
(* medium failed returns v.                                                *)
(***************************************************************************)
C6_ShadowHonored ==
    (/\ kvLast.op = "getItem"
     /\ written[kvLast.key] # NULL
     /\ written[kvLast.key][1].failed)
        => kvLast.result = Item(written[kvLast.key][1].value)

(***************************************************************************)
(* C10: the callback of a fallback-mode subscription is invoked once when  *)
(* the subscription is made and once at every tick, with the collection    *)
(* the store holds, and never after the returned function was called.      *)
(***************************************************************************)
Snapshot(kind) ==
    IF kind = "products" THEN Catalog
    ELSE IF kind = "orders" THEN OrderList
    ELSE ParseMap(tables)

C10_Callbacks ==
    /\ \A s \in SubIds : subs[s].state = "cancelled" => subs[s].count = subs[s].stoppedAt
    /\ subLast.op = "subscribe" => subs[subLast.sub].count = 1
    /\ subLast.op = "tick" => subs[subLast.sub].count = subLast.count + 1
    /\ (subLast.op \in {"subscribe", "tick"} /\ subLast.calls = calls) =>
          subs[subLast.sub].delivered = Snapshot(subs[subLast.sub].kind)

\* A subscription was ticked, then cancelled, and the store was written after.
C10_Witness ==
    /\ subLast.op = "unsubscribe"
    /\ subs[subLast.sub].state = "cancelled"
    /\ subs[subLast.sub].stoppedAt >= 2
    /\ calls > subLast.calls
    /\ subs[subLast.sub].delivered # Snapshot(subs[subLast.sub].kind)

(***************************************************************************)
(* C11: no call removes an order or changes a field of it other than its   *)
(* status: the orders a call found are still stored after it, in place,    *)
(* with their identifier, table, timestamp, items and total; and the one   *)
(* order a createOrder call adds has status PENDING.                       *)
(***************************************************************************)
\* An order with its status blanked: what of it must not change.
C11_Frozen(o) == [o EXCEPT !.status = ""]

C11_OrdersKept ==
    /\ Len(OrderList) >= Len(OrdersBefore)
    /\ \A i \in 1..Len(OrdersBefore) : C11_Frozen(OrderList[i]) = C11_Frozen(OrdersBefore[i])
    /\ IF last.call.op = "createOrder"
       THEN /\ Len(OrderList) = Len(OrdersBefore) + 1
            /\ OrderList[Len(OrderList)].status = "PENDING"
       ELSE Len(OrderList) = Len(OrdersBefore)

\* A call re-tagged one of two stored orders.
C11_Witness ==
    /\ last.call.op \in {"updateOrderStatus", "finalizeTable"}
    /\ Len(OrdersBefore) >= 2
    /\ \E i \in 1..Len(OrdersBefore) : OrderList[i].status # OrdersBefore[i].status

(***************************************************************************)
(* C12: a saveProduct call with the identifier of a record of the catalog  *)
(* leaves that record in place under the same identifier, carrying the     *)
(* fields passed in, and leaves every record's identifier as it was.       *)
(***************************************************************************)
C12_IsUpdate ==
    /\ last.call.op = "saveProduct"
    /\ last.call.product.id # ""
    /\ Resolve(CatalogBefore, last.call.product.id) > 0

C12_InPlaceUpdate ==
    C12_IsUpdate =>
        LET k == Resolve(CatalogBefore, last.call.product.id)
        IN  /\ Len(Catalog) = Len(CatalogBefore)
            /\ Catalog[k] = last.call.product
            /\ \A i \in 1..Len(Catalog) : Catalog[i].id = CatalogBefore[i].id

(***************************************************************************)
(* C13: a deleteProduct call with an identifier of no record leaves the    *)
(* products key as it found it, so that a fetch of the products            *)
(* subscription delivers after it what it would have delivered before it;  *)
(* with the identifier of a record, the other records stay.                *)
(***************************************************************************)
\* What fetch() of subscribeProducts delivers from a value of the key.
C13_Delivered(stored) == IF stored = NULL THEN INITIAL_PRODUCTS ELSE stored[1]

C13_DeleteNoOp ==
    last.call.op = "deleteProduct" =>
        IF Resolve(CatalogBefore, last.call.id) = 0
        THEN /\ products = last.products
             /\ C13_Delivered(products) = C13_Delivered(last.products)
        ELSE Catalog = SelectSeq(CatalogBefore, LAMBDA p : p.id # last.call.id)

(***************************************************************************)
(* C15: the identifier a saveProduct call generates is the identifier of   *)
(* one record only.                                                        *)
(***************************************************************************)
C15_UniqueGenerated ==
    (last.call.op = "saveProduct" /\ NeedsId(last.call.product.id)) =>
        \A i, j \in 1..Len(Catalog) :
            (Catalog[i].id = GenerateId(now) /\ i # j) => Catalog[j].id # Catalog[i].id

(***************************************************************************)
(* C19: a createOrder call followed at once by the cancellation of the     *)
(* order it stored leaves every record of the catalog with the stock it    *)
(* had before the order was created.                                       *)
(***************************************************************************)
\* The latest call cancelled the order that the call before it created.
C19_IsRoundTrip ==
    /\ last.call.op = "updateOrderStatus"
    /\ last.call.status = "CANCELED"
    /\ last.call.previous.call.op = "createOrder"
    /\ Resolve(OrdersBefore, last.call.orderId) = Len(OrdersBefore)

C19_RoundTrip == C19_IsRoundTrip => Catalog = ParseList(last.call.previous.products)

(***************************************************************************)
(* C16: a run of init whose connection attempt fails with an error other   *)
(* than app/duplicate-app returns false and leaves db unset; and whenever  *)
(* db is set after a run of init, that run returned true.                  *)
(***************************************************************************)
C16_FailureUnset ==
    /\ initLast.outcome.failure = "error" =>
          (initLast.outcome.returned = "false" /\ ~IsUsingCloud)
    /\ IsUsingCloud => initLast.outcome.returned = "true"

\* An attempt failed in a page that already has an app registered.
C16_Witness ==
    /\ initLast.op \in {"init", "saveConfig"}
    /\ initLast.outcome.attempted
    /\ initLast.outcome.failure = "error"
    /\ apps # NULL

(***************************************************************************)
(* C17: a run of init that reuses no connection and finds the compiled-in  *)
(* configuration valid attempts the connection with that configuration,    *)
(* whatever its argument and the saved configuration are; a run reads the  *)
(* saved configuration only when the compiled-in one is not valid and no   *)
(* argument was passed.                                                    *)
(***************************************************************************)
C17_CompiledFirst ==
    /\ (~initLast.outcome.reused /\ CompiledValid(firebaseConfig)) =>
          /\ initLast.outcome.config = Item(firebaseConfig)
          /\ initLast.outcome.attempted
          /\ apps = Item(firebaseConfig)
          /\ initLast.outcome.returned = "true" => db = Item(firebaseConfig)
    /\ initLast.outcome.readSaved =>
          (~CompiledValid(firebaseConfig) /\ initLast.arg = NULL)

\* init ran with an argument and with a saved configuration, both usable,
\* and with a valid compiled-in configuration.
C17_Witness ==
    /\ ~initLast.outcome.reused
    /\ CompiledValid(firebaseConfig)
    /\ initLast.arg # NULL /\ initLast.arg[1].apiKey # ""
    /\ initLast.saved # NULL /\ initLast.saved[1].apiKey # ""

(***************************************************************************)
(* C14: a saveProduct call that meets an error, of the backend in cloud    *)
(* mode or of a full storage in fallback mode, alerts the user and fails   *)
(* for its caller.                                                         *)
(***************************************************************************)
C14_ReportsAndRaises ==
    (last.call.op = "saveProduct" /\ last.call.error # "none") =>
        (last.call.alerted # "" /\ last.call.raised)

(***************************************************************************)
(* C18: a cloud-mode finalizeTable(t) call issues one update to PAID for   *)
(* every order its two queries returned that was neither CANCELED nor      *)
(* PAID, and for no other; the backend applies each once; and the call     *)
(* has returned only when all of them are applied, so that no order it     *)
(* was given is PENDING then.                                              *)
(***************************************************************************)
C18_Finalizing(c) ==
    /\ inflight[c].pc \in {"archiving", "returned"}
    /\ inflight[c].op = "finalizeTable"

\* The documents both queries of a call returned.
C18_Seen(c) == inflight[c].snap1[1] \o inflight[c].snap2[1]

C18_Status(id) == cloudOrders[CHOOSE i \in 1..Len(cloudOrders) : cloudOrders[i].id = id].status

C18_ArchivedOnce ==
    \A c \in CallIds :
        C18_Finalizing(c) =>
            LET seen == C18_Seen(c)
                issued == inflight[c].issued
                applied == inflight[c].applied
            IN  /\ \A i, j \in 1..Len(issued) : issued[i] = issued[j] => i = j
                /\ {issued[i] : i \in 1..Len(issued)}
                      = {seen[k].id : k \in {n \in 1..Len(seen) :
                                               seen[n].status \notin {"CANCELED", "PAID"}}}
                /\ \A i, j \in 1..Len(applied) : applied[i] = applied[j] => i = j
                /\ {applied[i] : i \in 1..Len(applied)} \cup inflight[c].pending
                      = {issued[i] : i \in 1..Len(issued)}
                /\ inflight[c].pc = "returned" =>
                      /\ inflight[c].pending = {}
                      /\ Len(applied) = Len(issued)
                /\ \A i \in 1..Len(applied) : C18_Status(applied[i]) # "PENDING"

\* A call has returned after archiving orders stored under the number and
\* under the string, having seen a CANCELED and a PAID one.
C18_Witness ==
    \E c \in CallIds :
        /\ C18_Finalizing(c)
        /\ inflight[c].pc = "returned"
        /\ Len(inflight[c].applied) >= 2
        /\ inflight[c].snap1[1] # <<>> /\ inflight[c].snap2[1] # <<>>
        /\ \E k \in 1..Len(C18_Seen(c)) : C18_Seen(c)[k].status = "CANCELED"
        /\ \E k \in 1..Len(C18_Seen(c)) : C18_Seen(c)[k].status = "PAID"

(***************************************************************************)
(* C20: in cloud mode, when restocks and createOrder calls have run        *)
(* together and all have completed, the stock of every product is its      *)
(* initial stock plus the amounts restocked minus the quantities ordered.  *)
(***************************************************************************)
C20_Settled(c) == inflight[c].pc \in {"idle", "done", "saved"}

\* A call that changes stock by a known amount: an order, or a restock.
C20_Counted(c) ==
    \/ inflight[c].pc \in {"idle", "done"}
    \/ inflight[c].pc = "saved" /\ inflight[c].path = "restock"

\* The amount a call added to the stock of a product.
C20_Change(c, id) ==
    IF inflight[c].pc = "done" THEN 0 - Ordered(inflight[c].items, id)
    ELSE IF inflight[c].pc = "saved" /\ inflight[c].target = id THEN inflight[c].product.stock
    ELSE 0

RECURSIVE C20_SumChanges(_, _)
C20_SumChanges(cs, id) ==
    IF cs = {} THEN 0
    ELSE LET c == CHOOSE x \in cs : TRUE
         IN  C20_Change(c, id) + C20_SumChanges(cs \ {c}, id)

C20_NoLostStock ==
    (\A c \in CallIds : C20_Settled(c) /\ C20_Counted(c)) =>
        \A id \in DOMAIN CloudCatalog :
            cloudProducts[id].stock = CloudCatalog[id].stock + C20_SumChanges(CallIds, id)

(***************************************************************************)
(* C21: a getItem(key) that follows a removeItem(key) returns null,        *)
(* whether or not the accesses to the medium of either call fail.          *)
(***************************************************************************)
C21_RemovedIsAbsent ==
    (/\ kvLast.op = "getItem"
     /\ kvLast.previous.op = "removeItem"
     /\ kvLast.previous.key = kvLast.key)
        => kvLast.result = NULL

====
